---- MODULE Spec2Model ----
(***************************************************************************)
(* Model of src/api/admin/user.js: the User facet of the SDK.  Each public *)
(* operation (findById, findByIdAndUpdatePassword, emailExist) validates   *)
(* its arguments, builds the session header, makes one call on the shared  *)
(* transport client, awaits it, and settles its promise with the result of *)
(* _returnData.                                                            *)
(*                                                                         *)
(* JavaScript values are tagged records:                                   *)
(*   [t |-> "undefined"], [t |-> "null"], [t |-> "number", v |-> n],       *)
(*   [t |-> "string", v |-> s], [t |-> "object", p |-> fields],            *)
(*   [t |-> "boom", statusCode |-> n, message |-> m]  (a Boom error).      *)
(***************************************************************************)
EXTENDS Integers, Sequences, FiniteSets, TLC

VARIABLES parent, client, pc, inv, calls, reply, promise, settles

vars == <<parent, client, pc, inv, calls, reply, promise, settles>>

\* Number of invocations issued on the one facet.
MaxInv == 2

Invocations == 1..MaxInv

-----------------------------------------------------------------------------
\* JavaScript values

Undefined == [t |-> "undefined"]

Null == [t |-> "null"]

Num(n) == [t |-> "number", v |-> n]

Str(s) == [t |-> "string", v |-> s]

Obj(f) == [t |-> "object", p |-> f]

EmptyObject == Obj(<<>>)

IsNullish(v) == v.t \in {"undefined", "null"}

\* o.k for a value o that is not null or undefined.
Prop(o, k) ==
  IF o.t = "object" /\ k \in DOMAIN o.p THEN o.p[k] ELSE Undefined

\* _.get(o, k, def): def when o is nullish or o.k resolves to undefined.
LodashGet(o, k, def) ==
  IF IsNullish(o) THEN def
  ELSE IF Prop(o, k) = Undefined THEN def ELSE Prop(o, k)

\* Boom.badRequest(message): an error object with HTTP status code 400.
BoomBadRequest(message) ==
  [t |-> "boom", statusCode |-> 400, message |-> message]

\* The TypeError the engine throws on a property read of null or undefined.
TypeError == Obj([name |-> Str("TypeError"),
                  message |-> Str("Cannot read property 'status'")])

\* Result of evaluating an expression: a value, or a thrown exception.
Return(v) == [threw |-> FALSE, val |-> v]

Throw(ex) == [threw |-> TRUE, val |-> ex]

-----------------------------------------------------------------------------
\* Joi validation

ValidationError(msg) ==
  Obj([name |-> Str("ValidationError"), message |-> Str(msg)])

\* Strings of the input domain that are email-formatted.
EmailFormatted == {"ana@x.com"}

\* Joi.assert(v, Joi.string().required())
JoiStringRequired(v) ==
  IF v = Undefined THEN Throw(ValidationError("\"value\" is required"))
  ELSE IF v.t # "string" THEN Throw(ValidationError("\"value\" must be a string"))
  ELSE IF v.v = "" THEN Throw(ValidationError("\"value\" is not allowed to be empty"))
  ELSE Return(v)

\* Joi.assert(v, Joi.string().email().required())
JoiStringEmailRequired(v) ==
  IF JoiStringRequired(v).threw THEN JoiStringRequired(v)
  ELSE IF v.v \notin EmailFormatted
       THEN Throw(ValidationError("\"value\" must be a valid email"))
  ELSE Return(v)

\* Joi.assert(v, Joi.object().required())
JoiObjectRequired(v) ==
  IF v = Undefined THEN Throw(ValidationError("\"value\" is required"))
  ELSE IF v.t # "object" THEN Throw(ValidationError("\"value\" must be of type object"))
  ELSE Return(v)

\* The first assertion of a sequence that throws, or the last one's result.
RECURSIVE FirstThrow(_)
FirstThrow(rs) ==
  IF Len(rs) = 1 \/ Head(rs).threw THEN Head(rs) ELSE FirstThrow(Tail(rs))

-----------------------------------------------------------------------------
\* Private helpers of User

\* _returnData reading retData.data without the default.
_returnData_noDefault(retData, def) ==
  IF IsNullish(retData) THEN Throw(TypeError)
  ELSE IF Prop(retData, "status") # Num(200)
       THEN Return(BoomBadRequest(
              LodashGet(retData, "message", Str("No error message reported!"))))
  ELSE Return(Prop(retData, "data"))

\* _returnData passing retData.message on without the placeholder.
_returnData_noPlaceholder(retData, def) ==
  IF IsNullish(retData) THEN Throw(TypeError)
  ELSE IF Prop(retData, "status") # Num(200)
       THEN Return(BoomBadRequest(Prop(retData, "message")))
  ELSE Return(LodashGet(retData, "data", def))

_returnData(retData, def) ==
  IF IsNullish(retData) THEN Throw(TypeError)
  ELSE IF Prop(retData, "status") # Num(200)
       THEN Return(BoomBadRequest(
              LodashGet(retData, "message", Str("No error message reported!"))))
  ELSE Return(LodashGet(retData, "data", def))

\* _setHeader keeping the header built for the facet's first call.
_setHeader_cached(session) ==
  IF calls # <<>> THEN calls[1].meta
  ELSE Obj([headers |-> Obj([authorization |-> session])])

_setHeader(session) ==
  Obj([headers |-> Obj([authorization |-> session])])

-----------------------------------------------------------------------------
\* Input domains

UserIds == {Undefined, Num(7), Str("u1")}

Sessions == {Undefined, Str("s1"), Str("s2")}

Emails == {Undefined, Str("not-an-email"), Str("ana@x.com")}

ParamsExact ==
  Obj([userId |-> Str("u1"), oldPassword |-> Str("a"), newPassword |-> Str("b")])

ParamsExtra ==
  Obj([userId |-> Str("u1"), oldPassword |-> Str("a"), newPassword |-> Str("b"),
       role |-> Str("admin")])

ParamsMissing == Obj([userId |-> Str("u1"), oldPassword |-> Str("a")])

ParamsEmpty ==
  Obj([userId |-> Str("u1"), oldPassword |-> Str("a"), newPassword |-> Str("")])

ParamsSet == {Undefined, ParamsExact, ParamsExtra, ParamsMissing, ParamsEmpty}

\* Values the transport call may return or raise.
TransportValues ==
  { Obj([status |-> Num(200), data |-> Str("d1")]),
    Obj([status |-> Num(200)]),
    Obj([status |-> Num(404), message |-> Str("m1")]),
    Obj([status |-> Num(404)]),
    Null }

NoReply == [how |-> "none", val |-> Undefined]

NoInvocation == [op |-> "none", arg |-> Undefined, session |-> Undefined]

Pending == [state |-> "pending", value |-> Undefined]

-----------------------------------------------------------------------------
\* State after construction: the facet holds the parent and the parent's
\* shared client; no operation has been invoked.
Init ==
  /\ parent = "parent"
  /\ client = "parent.dispatch.getClient()"
  /\ pc = [i \in Invocations |-> "idle"]
  /\ inv = [i \in Invocations |-> NoInvocation]
  /\ calls = <<>>
  /\ reply = [i \in Invocations |-> NoReply]
  /\ promise = [i \in Invocations |-> Pending]
  /\ settles = [i \in Invocations |-> 0]

\* Invocations are numbered in the order the caller issues them.
CanInvoke(i) ==
  /\ pc[i] = "idle"
  /\ \A j \in Invocations : j < i => pc[j] # "idle"

\* resolve / reject kept on the facet: the latest invocation's promise is
\* the one that gets settled.
Settle_shared(i, state, v) ==
  LET later == {j \in Invocations : j > i /\ pc[j] # "idle"}
      target == IF later = {} THEN i
                ELSE CHOOSE j \in later : \A k \in later : k <= j
  IN /\ promise' = [promise EXCEPT ![target] =
                      IF promise[target].state = "pending"
                      THEN [state |-> state, value |-> v] ELSE promise[target]]
     /\ settles' = [settles EXCEPT ![target] = settles[target] + 1]

\* resolve(v) / reject(v) on the promise of invocation i.
Settle(i, state, v) ==
  /\ promise' = [promise EXCEPT ![i] =
                   IF promise[i].state = "pending"
                   THEN [state |-> state, value |-> v] ELSE promise[i]]
  /\ settles' = [settles EXCEPT ![i] = settles[i] + 1]

\* catch (ex) { reject(self._returnData(ex)); }  An exception thrown inside
\* the handler escapes the async executor and leaves the promise pending.
Catch(i, ex) ==
  IF _returnData(ex, EmptyObject).threw
  THEN UNCHANGED <<promise, settles>>
  ELSE Settle(i, "rejected", _returnData(ex, EmptyObject).val)

\* The transport call issued a second time.
Dispatch_twice(i, verb, path, body, meta) ==
  calls' = calls \o << [inv |-> i, verb |-> verb, path |-> path,
                        body |-> body, meta |-> meta],
                       [inv |-> i, verb |-> verb, path |-> path,
                        body |-> body, meta |-> meta] >>

\* self.client.get / put / post: one call on the shared transport client.
\* The field inv records which invocation made the call.
Dispatch(i, verb, path, body, meta) ==
  calls' = Append(calls, [inv |-> i, verb |-> verb, path |-> path,
                          body |-> body, meta |-> meta])

\* The transport call made before the validation has finished.
Invalid_afterDispatch(i, ex) ==
  /\ Catch(i, ex)
  /\ pc' = [pc EXCEPT ![i] = "done"]
  /\ calls' = Append(calls, [inv |-> i, verb |-> "GET", path |-> "",
                             body |-> Undefined, meta |-> Undefined])

\* The executor's try block fails before the transport call: the catch
\* handler runs and the executor ends.
Invalid(i, ex) ==
  /\ Catch(i, ex)
  /\ pc' = [pc EXCEPT ![i] = "done"]
  /\ UNCHANGED calls

findByIdChecks(userId, session) ==
  FirstThrow(<<JoiStringRequired(userId), JoiStringRequired(session)>>)

findByIdPath(userId) == "/admin/users/" \o userId.v

findById(i, userId, session) ==
  /\ CanInvoke(i)
  /\ inv' = [inv EXCEPT ![i] =
               [op |-> "findById", arg |-> userId, session |-> session]]
  /\ IF findByIdChecks(userId, session).threw
     THEN Invalid(i, findByIdChecks(userId, session).val)
     ELSE /\ Dispatch(i, "GET", findByIdPath(userId), Undefined,
                      _setHeader(session))
          /\ pc' = [pc EXCEPT ![i] = "awaiting"]
          /\ UNCHANGED <<promise, settles>>
  /\ UNCHANGED <<parent, client, reply>>

findByIdAndUpdatePasswordChecks(params, session) ==
  IF JoiObjectRequired(params).threw THEN JoiObjectRequired(params)
  ELSE FirstThrow(<<JoiStringRequired(Prop(params, "userId")),
                    JoiStringRequired(Prop(params, "oldPassword")),
                    JoiStringRequired(Prop(params, "newPassword")),
                    JoiStringRequired(session)>>)

\* const {userId, ...payload} = params
RestWithoutUserId(params) ==
  Obj([k \in DOMAIN params.p \ {"userId"} |-> params.p[k]])

findByIdAndUpdatePasswordPath(userId) ==
  "/admin/users/" \o userId.v \o "/password"

findByIdAndUpdatePassword(i, params, session) ==
  /\ CanInvoke(i)
  /\ inv' = [inv EXCEPT ![i] = [op |-> "findByIdAndUpdatePassword",
                                arg |-> params, session |-> session]]
  /\ IF findByIdAndUpdatePasswordChecks(params, session).threw
     THEN Invalid(i, findByIdAndUpdatePasswordChecks(params, session).val)
     ELSE /\ Dispatch(i, "PUT",
                      findByIdAndUpdatePasswordPath(Prop(params, "userId")),
                      RestWithoutUserId(params), _setHeader(session))
          /\ pc' = [pc EXCEPT ![i] = "awaiting"]
          /\ UNCHANGED <<promise, settles>>
  /\ UNCHANGED <<parent, client, reply>>

emailExistChecks(email, session) ==
  FirstThrow(<<JoiStringEmailRequired(email), JoiStringRequired(session)>>)

emailExist(i, email, session) ==
  /\ CanInvoke(i)
  /\ inv' = [inv EXCEPT ![i] =
               [op |-> "emailExist", arg |-> email, session |-> session]]
  /\ IF emailExistChecks(email, session).threw
     THEN Invalid(i, emailExistChecks(email, session).val)
     ELSE /\ Dispatch(i, "POST", "/admin/users/email/exist",
                      Obj([email |-> email]), _setHeader(session))
          /\ pc' = [pc EXCEPT ![i] = "awaiting"]
          /\ UNCHANGED <<promise, settles>>
  /\ UNCHANGED <<parent, client, reply>>

\* The awaited transport call returns val: normalise it and resolve; an
\* exception thrown by the normalisation goes to the catch handler.
AwaitReturns(i, val) ==
  /\ pc[i] = "awaiting"
  /\ reply' = [reply EXCEPT ![i] = [how |-> "return", val |-> val]]
  /\ IF _returnData(val, EmptyObject).threw
     THEN Catch(i, _returnData(val, EmptyObject).val)
     ELSE Settle(i, "resolved", _returnData(val, EmptyObject).val)
  /\ pc' = [pc EXCEPT ![i] = "done"]
  /\ UNCHANGED <<parent, client, inv, calls>>

\* The awaited transport call raises val: the catch handler runs.
AwaitRaises(i, val) ==
  /\ pc[i] = "awaiting"
  /\ reply' = [reply EXCEPT ![i] = [how |-> "raise", val |-> val]]
  /\ Catch(i, val)
  /\ pc' = [pc EXCEPT ![i] = "done"]
  /\ UNCHANGED <<parent, client, inv, calls>>

Next ==
  \/ \E i \in Invocations, u \in UserIds, s \in Sessions : findById(i, u, s)
  \/ \E i \in Invocations, p \in ParamsSet, s \in Sessions :
       findByIdAndUpdatePassword(i, p, s)
  \/ \E i \in Invocations, e \in Emails, s \in Sessions : emailExist(i, e, s)
  \/ \E i \in Invocations, v \in TransportValues : AwaitReturns(i, v)
  \/ \E i \in Invocations, v \in TransportValues : AwaitRaises(i, v)

Spec == Init /\ [][Next]_vars

TypeOK ==
  /\ pc \in [Invocations -> {"idle", "awaiting", "done"}]
  /\ \A i \in Invocations : promise[i].state \in {"pending", "resolved", "rejected"}

-----------------------------------------------------------------------------
\* Vocabulary of the properties

Done(i) == pc[i] = "done"

\* Result of the validation the invoked operation ran on its arguments.
ChecksOf(i) ==
  CASE inv[i].op = "findById" -> findByIdChecks(inv[i].arg, inv[i].session)
    [] inv[i].op = "findByIdAndUpdatePassword" ->
         findByIdAndUpdatePasswordChecks(inv[i].arg, inv[i].session)
    [] inv[i].op = "emailExist" -> emailExistChecks(inv[i].arg, inv[i].session)

Invoked(i) == pc[i] # "idle"

ArgsInvalid(i) == Invoked(i) /\ ChecksOf(i).threw

ArgsValid(i) == Invoked(i) /\ ~ChecksOf(i).threw

\* Positions in the transport log of the calls made by invocation i.
CallsOf(i) == {k \in 1..Len(calls) : calls[k].inv = i}

Returned(i) == Done(i) /\ reply[i].how = "return"

Raised(i) == Done(i) /\ reply[i].how = "raise"

HasStatus200(v) ==
  /\ v.t = "object"
  /\ "status" \in DOMAIN v.p
  /\ v.p.status = Num(200)

\* The message field of a response-shaped value, or the fixed placeholder.
MessageOrPlaceholder(v) ==
  IF v.t = "object" /\ "message" \in DOMAIN v.p
  THEN v.p.message ELSE Str("No error message reported!")

IsBadRequest(p, msg) ==
  /\ p.state = "rejected"
  /\ p.value.t = "boom"
  /\ p.value.statusCode \in 400..499
  /\ p.value.message = msg

-----------------------------------------------------------------------------
\* C1: a response returned by the transport with a status other than 200
\* rejects the operation's promise with the response's message, or with
\* "No error message reported!" when it has none.
C1_ReturnedFailureRejects ==
  \A i \in Invocations :
    (Returned(i) /\ ~IsNullish(reply[i].val) /\ ~HasStatus200(reply[i].val))
      => IsBadRequest(promise[i], MessageOrPlaceholder(reply[i].val))

\* C2 as stated: an invocation whose arguments fail validation is rejected
\* with the validator's error itself, and never reaches the transport.
C2_RejectedWithValidatorError ==
  \A i \in Invocations :
    ArgsInvalid(i) =>
      /\ promise[i] = [state |-> "rejected", value |-> ChecksOf(i).val]
      /\ CallsOf(i) = {}

\* C2 amended: an invocation whose arguments fail validation is rejected with
\* a 400 error carrying the validator's message, and never reaches the
\* transport.
C2_InvalidArgsRejectedBeforeDispatch ==
  \A i \in Invocations :
    ArgsInvalid(i) =>
      /\ Done(i)
      /\ IsBadRequest(promise[i], ChecksOf(i).val.p.message)
      /\ CallsOf(i) = {}

\* Both invocations failed validation, one on an empty string and one on a
\* string that is not an email, and the transport log is empty.
C2_Witness ==
  /\ calls = <<>>
  /\ \E i, j \in Invocations :
       /\ inv[i].op = "findByIdAndUpdatePassword" /\ inv[i].arg = ParamsEmpty
       /\ inv[j].op = "emailExist" /\ inv[j].arg = Str("not-an-email")
       /\ promise[i].state = "rejected" /\ promise[j].state = "rejected"

\* C3: a response returned with status exactly 200 resolves the promise with
\* the response's data field, or with an empty object when it has none.
C3_OkResolvesWithData ==
  \A i \in Invocations :
    (Returned(i) /\ HasStatus200(reply[i].val)) =>
      promise[i] = [state |-> "resolved",
                    value |-> IF "data" \in DOMAIN reply[i].val.p
                              THEN reply[i].val.p.data ELSE EmptyObject]

\* One invocation resolved with the data of its response, another with the
\* empty object because its 200 response had no data field.
C3_Witness ==
  \E i, j \in Invocations :
    /\ Returned(i) /\ reply[i].val = Obj([status |-> Num(200), data |-> Str("d1")])
    /\ promise[i] = [state |-> "resolved", value |-> Str("d1")]
    /\ Returned(j) /\ reply[j].val = Obj([status |-> Num(200)])
    /\ promise[j] = [state |-> "resolved", value |-> EmptyObject]

\* C4: a rejected promise always carries a structured error with a 400-class
\* status and a message, never a success data payload.
C4_RejectionIsStructuredError ==
  \A i \in Invocations :
    promise[i].state = "rejected" =>
      /\ promise[i].value.t = "boom"
      /\ promise[i].value.statusCode \in 400..499
      /\ promise[i].value.message.t = "string"

\* The verb and path each operation declares.
DeclaredVerb(i) ==
  CASE inv[i].op = "findById" -> "GET"
    [] inv[i].op = "findByIdAndUpdatePassword" -> "PUT"
    [] inv[i].op = "emailExist" -> "POST"

DeclaredPath(i) ==
  CASE inv[i].op = "findById" -> "/admin/users/" \o inv[i].arg.v
    [] inv[i].op = "findByIdAndUpdatePassword" ->
         "/admin/users/" \o inv[i].arg.p.userId.v \o "/password"
    [] inv[i].op = "emailExist" -> "/admin/users/email/exist"

\* C5: an invocation whose arguments pass validation makes exactly one call
\* on the transport client, from its start to its end and whatever the
\* transport answers, with the operation's declared verb and path.
C5_ExactlyOneDeclaredCall ==
  \A i \in Invocations :
    ArgsValid(i) =>
      /\ Cardinality(CallsOf(i)) = 1
      /\ \A k \in CallsOf(i) :
           /\ calls[k].verb = DeclaredVerb(i)
           /\ calls[k].path = DeclaredPath(i)

\* A password update ended on a raised transport error and a findById on a
\* returned 404; the log holds exactly their two calls.
C5_Witness ==
  /\ Len(calls) = 2
  /\ \E i, j \in Invocations :
       /\ inv[i].op = "findByIdAndUpdatePassword" /\ Raised(i)
       /\ ~HasStatus200(reply[i].val)
       /\ inv[j].op = "findById" /\ Returned(j)
       /\ reply[j].val = Obj([status |-> Num(404)])

\* C6: the body of the PUT of findByIdAndUpdatePassword is exactly
\* {oldPassword, newPassword} with the values of params.
C6_BodyIsExactlyPasswords ==
  \A k \in 1..Len(calls) :
    calls[k].verb = "PUT" =>
      calls[k].body =
        Obj([oldPassword |-> inv[calls[k].inv].arg.p.oldPassword,
             newPassword |-> inv[calls[k].inv].arg.p.newPassword])

\* C7: the meta argument of every transport call is
\* {headers: {authorization: s}} with s the session of the invocation that
\* made the call.
C7_MetaCarriesOwnSession ==
  \A k \in 1..Len(calls) :
    calls[k].meta =
      Obj([headers |-> Obj([authorization |-> inv[calls[k].inv].session])])

\* Two invocations with different sessions are in flight together.
C7_Witness ==
  /\ Len(calls) = 2
  /\ pc[calls[1].inv] = "awaiting" /\ pc[calls[2].inv] = "awaiting"
  /\ inv[calls[1].inv].session = Str("s2")
  /\ inv[calls[2].inv].session = Str("s1")

\* C8: an invocation whose executor has ended has settled its promise,
\* exactly once, whatever the transport returned or raised.
C8_EndedInvocationSettledOnce ==
  \A i \in Invocations :
    Done(i) => (promise[i].state # "pending" /\ settles[i] = 1)

\* C9: a value raised by the transport whose status is not 200 rejects the
\* promise with a 400 error carrying the value's message, or
\* "No error message reported!" when it has none.
C9_RaisedFailureRejects ==
  \A i \in Invocations :
    (Raised(i) /\ ~IsNullish(reply[i].val) /\ ~HasStatus200(reply[i].val))
      => /\ IsBadRequest(promise[i], MessageOrPlaceholder(reply[i].val))
         /\ promise[i].value.statusCode = 400

\* One invocation was rejected with the raised value's message, another with
\* the placeholder.
C9_Witness ==
  \E i, j \in Invocations :
    /\ Raised(i) /\ reply[i].val = Obj([status |-> Num(404), message |-> Str("m1")])
    /\ promise[i].state = "rejected" /\ promise[i].value.message = Str("m1")
    /\ Raised(j) /\ reply[j].val = Obj([status |-> Num(404)])
    /\ promise[j].state = "rejected"
    /\ promise[j].value.message = Str("No error message reported!")

\* Two invocations with the same operation, arguments and transport answer
\* have the same outcome.
SameInputsSameOutcome ==
  \A i, j \in Invocations :
    (Done(i) /\ Done(j) /\ inv[i] = inv[j] /\ reply[i] = reply[j])
      => promise[i] = promise[j]

\* A step leaves alone the promise and the transport answer of every
\* invocation that does not move in it, and the facet's references.
NoInterference ==
  /\ parent' = parent
  /\ client' = client
  /\ \A i \in Invocations :
       pc'[i] = pc[i] =>
         (promise'[i] = promise[i] /\ reply'[i] = reply[i] /\ inv'[i] = inv[i])

\* C10: with several invocations in flight, in any interleaving, each
\* outcome depends only on the invocation's own arguments and own transport
\* answer, and no operation changes the facet's parent or client.
C10_InvocationsIndependent ==
  [](SameInputsSameOutcome) /\ [][NoInterference]_vars

\* Two findById calls with identical arguments received identical responses
\* and resolved with identical data.
C10_Witness ==
  \E i, j \in Invocations :
    /\ i # j
    /\ inv[i].op = "findById" /\ inv[i] = inv[j]
    /\ Returned(i) /\ reply[i] = reply[j]
    /\ promise[i] = [state |-> "resolved", value |-> Str("d1")]
    /\ promise[j] = promise[i]

====
